---- MODULE Spec2Model ----
(***************************************************************************)
(* The deSEC provider of dnscontrol (providers/desec/desecProvider.go):     *)
(* normalisation of the desired records, planning of corrections from the  *)
(* diff against the remote zone, execution of the planned corrections by   *)
(* the caller, and the domain existence gate.                              *)
(***************************************************************************)
EXTENDS Integers, Sequences, FiniteSets, TLC

VARIABLES
    dcRecords,      \* dc.Records, the desired records of the domain configuration
    dcInput,        \* dc.Records as they were on entry to the latest GetDomainCorrections
    remote,         \* the zone held by the deSEC API: a set of resource record sets
    keysToUpdate,   \* the changed groups of the latest planning pass (RecordKey -> messages)
    corrections,    \* the correction list returned by the latest GetDomainCorrections
    label,          \* the range variable of the loop over keysToUpdate, as the closures see it
    next,           \* index of the next correction the caller will run
    allOK,          \* every correction run so far returned nil
    trace,          \* warnings printed and API calls issued since the latest call began
    result,         \* what the latest GetDomainCorrections returned: "none", "ok", "err"
    prevPlan,       \* the corrections of the call before the latest one, as they would act
    twice,          \* the latest call followed a successful call with nothing run in between
    afterApply,     \* the latest call followed a successful call whose corrections all ran and succeeded
    domainIndex,    \* c.domainIndex, the cached set of domain names
    remoteDomains,  \* the domains that exist at the deSEC API
    createCalls,    \* per domain, how often createDomain was invoked
    noFailure,      \* no remote call of the domain gate has failed so far
    last            \* the latest EnsureDomainExists call: its argument and what it did

vars == <<dcRecords, dcInput, remote, keysToUpdate, corrections, label, next, allOK,
          trace, result, prevPlan, twice, afterApply,
          domainIndex, remoteDomains, createCalls, noFailure, last>>

planVars == <<dcRecords, dcInput, remote, keysToUpdate, corrections, label, next, allOK,
              trace, result, prevPlan, twice, afterApply>>

gateVars == <<domainIndex, remoteDomains, createCalls, noFailure, last>>

(***************************************************************************)
(* Bounds of the model.                                                    *)
(***************************************************************************)
MaxRecs == 2
MaxCreate == 2

(***************************************************************************)
(* The universe of inputs.                                                 *)
(***************************************************************************)
Origin == "example.com"

MinTTL == 3600

Types == {"A", "NS", "ALIAS"}

\* A records at the apex and at an internationalised label; NS and ALIAS at the apex
NamesOf(t) == IF t = "A" THEN {"@", "ulabel"} ELSE {"@"}

\* a TTL below the floor and one above it; an ALIAS record is dropped whatever its TTL
TTLsOf(t) == IF t = "ALIAS" THEN {300} ELSE {300, 7200}

\* two addresses at the apex, one at the other label, one NS and one ALIAS target
TargetsOf(t, n) ==
    CASE t = "A" /\ n = "@" -> {"1.1.1.1", "2.2.2.2"}
      [] t = "A" /\ n # "@" -> {"1.1.1.1"}
      [] t = "NS" -> {"ns1.example.net."}
      [] OTHER -> {"alias.example.net."}

InputRecords ==
    UNION {UNION {{[Name |-> n, Type |-> t, TTL |-> ttl, Target |-> tg] :
                      ttl \in TTLsOf(t), tg \in TargetsOf(t, n)} : n \in NamesOf(t)} : t \in Types}

NoKey == [NameFQDN |-> "", Type |-> ""]

NoRC == [Subname |-> "", Type |-> "", TTL |-> 0, Records |-> <<>>]

(***************************************************************************)
(* Labels.  A record carries its short label; "@" is the zone apex.        *)
(***************************************************************************)
\* rec.GetLabelFQDN(): the label qualified with the origin
LabelFQDN(name) ==
    CASE name = "@" -> Origin
      [] name = "ulabel" -> "ulabel.example.com"
      [] name = "xn--alabel" -> "xn--alabel.example.com"
      [] OTHER -> name

\* idna.ToASCII on a fully qualified name: a U-label becomes its A-label
ToASCII(fqdn) ==
    IF fqdn = "ulabel.example.com" THEN "xn--alabel.example.com" ELSE fqdn

\* dnsutil.TrimDomainName(fqdn, origin): the origin stripped, the apex shown as "@"
TrimDomainName(fqdn, origin) ==
    CASE fqdn = origin -> "@"
      [] fqdn = "ulabel.example.com" /\ origin = Origin -> "ulabel"
      [] fqdn = "xn--alabel.example.com" /\ origin = Origin -> "xn--alabel"
      [] OTHER -> fqdn

\* rec.Key(): the (FQDN, type) change group key of a record
Key(rec) == [NameFQDN |-> LabelFQDN(rec.Name), Type |-> rec.Type]

KeysOf(recs) == {Key(recs[i]) : i \in 1..Len(recs)}

\* the native subname of a key: the apex is the empty string
SubnameOf(fqdn) ==
    LET shortname == TrimDomainName(fqdn, Origin)
    IN  IF shortname = "@" THEN "" ELSE shortname

(***************************************************************************)
(* Sequence helpers.                                                       *)
(***************************************************************************)
RECURSIVE Concat(_, _)
Concat(f, n) == IF n = 0 THEN <<>> ELSE Concat(f, n - 1) \o f[n]

Last(s) == s[Len(s)]

Min(a, b) == IF a < b THEN a ELSE b

Orders(S) ==
    {o \in [1..Cardinality(S) -> S] : \A i, j \in 1..Cardinality(S) : i # j => o[i] # o[j]}

(***************************************************************************)
(* Events of the trace: warnings printed and API calls issued.             *)
(***************************************************************************)
ListEvent == [ev |-> "list", key |-> NoKey, ttl |-> 0, rc |-> NoRC]

AliasWarning == [ev |-> "warnAlias", key |-> NoKey, ttl |-> 0, rc |-> NoRC]

TTLWarning(rec) == [ev |-> "warnTTL", key |-> Key(rec), ttl |-> rec.TTL, rc |-> NoRC]

CallEvent(kind, key, rc) == [ev |-> kind, key |-> key, ttl |-> 0, rc |-> rc]

IsWarning(e) == e.ev \in {"warnAlias", "warnTTL"}

IsApiCall(e) == e.ev \in {"list", "upsert", "delete"}

IsWrite(e) == e.ev \in {"upsert", "delete"}

(***************************************************************************)
(* PrepDesiredRecords.                                                     *)
(***************************************************************************)
\* dc.Punycode(): every label is converted to its ASCII form
Punycode(rec) ==
    [rec EXCEPT !.Name = TrimDomainName(ToASCII(LabelFQDN(rec.Name)), Origin)]

\* a faulty variant of Unsupported: no record type is filtered
Unsupported_KeepAll(rec) == FALSE

\* if rec.Type == "ALIAS" { warn; continue }
Unsupported(rec) == rec.Type = "ALIAS"

\* a faulty variant of WarnsTTL: the warning is printed for NS records too
WarnsTTL_AlsoNS(rec) == rec.TTL < MinTTL

\* if rec.TTL < 3600 { if rec.Type != "NS" { warn } ... }
WarnsTTL(rec) == rec.TTL < MinTTL /\ rec.Type # "NS"

\* a faulty variant of RaiseTTL: the assignment rec.TTL = 3600 is missing
RaiseTTL_Forgotten(rec) == rec

\* if rec.TTL < 3600 { ...; rec.TTL = 3600 }
RaiseTTL(rec) == IF rec.TTL < MinTTL THEN [rec EXCEPT !.TTL = MinTTL] ELSE rec

\* the loop over dc.Records after its first n iterations:
\* recordsToKeep and the warnings printed so far
RECURSIVE PrepLoop(_, _)
PrepLoop(recs, n) ==
    IF n = 0 THEN [keep |-> <<>>, warns |-> <<>>]
    ELSE LET prev == PrepLoop(recs, n - 1)
             rec == recs[n]
         IN  IF Unsupported(rec)
             THEN [keep |-> prev.keep, warns |-> Append(prev.warns, AliasWarning)]
             ELSE [keep |-> Append(prev.keep, RaiseTTL(rec)),
                   warns |-> IF WarnsTTL(rec)
                             THEN Append(prev.warns, TTLWarning(rec))
                             ELSE prev.warns]

PrepDesiredRecords(recs) ==
    LET puny == [i \in 1..Len(recs) |-> Punycode(recs[i])]
    IN  PrepLoop(puny, Len(puny))

(***************************************************************************)
(* The remote zone and GetZoneRecords.                                     *)
(***************************************************************************)
\* nativeToRecords: one generic record per value of the record set
nativeToRecords(rr) ==
    [i \in 1..Len(rr.Records) |->
        [Name |-> IF rr.Subname = "" THEN "@" ELSE rr.Subname,
         Type |-> rr.Type, TTL |-> rr.TTL, Target |-> rr.Records[i]]]

RECURSIVE FlattenRRs(_)
FlattenRRs(rrs) ==
    IF rrs = {} THEN <<>>
    ELSE LET rr == CHOOSE x \in rrs : TRUE
         IN  nativeToRecords(rr) \o FlattenRRs(rrs \ {rr})

\* GetZoneRecords on a successful listing
GetZoneRecords(zone) == FlattenRRs(zone)

\* PrepFoundRecords returns its argument
PrepFoundRecords(recs) == recs

\* upsertRR: the record set replaces all values of its (subname, type)
upsertRR(zone, rc) ==
    {rr \in zone : ~(rr.Subname = rc.Subname /\ rr.Type = rc.Type)} \cup {rc}

\* deleteRR: a write with no values removes the record set of (subname, type)
deleteRR(zone, rc) ==
    {rr \in zone : ~(rr.Subname = rc.Subname /\ rr.Type = rc.Type)}

(***************************************************************************)
(* The diff engine and the grouping of records by key.                     *)
(***************************************************************************)
ForKey(recs, k) == SelectSeq(recs, LAMBDA r : Key(r) = k)

Matches(r, recs) ==
    \E i \in 1..Len(recs) : recs[i].Target = r.Target /\ recs[i].TTL = r.TTL

Message(op, r) ==
    [op |-> op, NameFQDN |-> LabelFQDN(r.Name), Type |-> r.Type,
     Target |-> r.Target, TTL |-> r.TTL]

MsgKey(msg) == [NameFQDN |-> msg.NameFQDN, Type |-> msg.Type]

\* the messages of one group: a creation per desired record the zone lacks,
\* then a deletion per existing record that is not desired
GroupMessages(desired, existing, k) ==
    LET d == ForKey(desired, k)
        e == ForKey(existing, k)
        create == SelectSeq(d, LAMBDA r : ~Matches(r, e))
        delete == SelectSeq(e, LAMBDA r : ~Matches(r, d))
    IN  [i \in 1..Len(create) |-> Message("CREATE", create[i])]
        \o [i \in 1..Len(delete) |-> Message("DELETE", delete[i])]

\* differ.ChangedGroups(existing): key -> messages, for the groups that changed
ChangedGroups(desired, existing) ==
    LET all == KeysOf(desired) \cup KeysOf(existing)
        changed == {k \in all : GroupMessages(desired, existing, k) # <<>>}
    IN  [k \in changed |-> GroupMessages(desired, existing, k)]

\* dc.Records.GroupedByKey()
GroupedByKey(recs) == [k \in KeysOf(recs) |-> ForKey(recs, k)]

RECURSIVE MinTTLOf(_, _)
MinTTLOf(recs, n) ==
    IF n = 1 THEN recs[1].TTL ELSE Min(MinTTLOf(recs, n - 1), recs[n].TTL)

\* recordsToNative on the records of one group: one record set with all values
recordsToNative(recs, origin) ==
    <<[Subname |-> IF recs[1].Name = "@" THEN "" ELSE recs[1].Name,
       Type |-> recs[1].Type,
       TTL |-> MinTTLOf(recs, Len(recs)),
       Records |-> [i \in 1..Len(recs) |-> recs[i].Target]]>>

(***************************************************************************)
(* GenerateDomainCorrections.                                              *)
(***************************************************************************)
Correction(msg, f, rc) == [Msg |-> msg, F |-> f, rc |-> rc]

\* a faulty variant of DeleteCorrections: every message is bound to the deletion
DeleteCorrections_All(msgs) ==
    [i \in 1..Len(msgs) |-> Correction(msgs[i], "delete", NoRC)]

\* the deletion path: the first message carries the deletion, the others do nothing.
\* The deletion reads the loop variable label when it runs, so it holds no record set.
DeleteCorrections(msgs) ==
    [i \in 1..Len(msgs) |->
        IF i = 1 THEN Correction(msgs[i], "delete", NoRC)
                 ELSE Correction(msgs[i], "noop", NoRC)]

\* a faulty variant of UpsertCorrections: every message is bound to the upsert
UpsertCorrections_All(msgs, ns) ==
    [i \in 1..Len(msgs) |-> Correction(msgs[i], "upsert", ns[1])]

\* the upsert path: the first message carries the upsert of ns[0], the others do nothing.
\* ns is declared in the loop body, so each upsert holds the record set of its own group.
UpsertCorrections(msgs, ns) ==
    [i \in 1..Len(msgs) |->
        IF i = 1 THEN Correction(msgs[i], "upsert", ns[1])
                 ELSE Correction(msgs[i], "noop", NoRC)]

\* one iteration of the loop over keysToUpdate
CorrectionsFor(k, changed, desiredRecords) ==
    IF k \notin DOMAIN desiredRecords
    THEN DeleteCorrections(changed[k])
    ELSE UpsertCorrections(changed[k], recordsToNative(desiredRecords[k], Origin))

\* the loop over keysToUpdate, the map being ranged over in the order given
GenerateDomainCorrections(desired, changed, order) ==
    LET desiredRecords == GroupedByKey(desired)
    IN  Concat([i \in 1..Len(order) |-> CorrectionsFor(order[i], changed, desiredRecords)],
               Len(order))

\* the value of the loop variable once the loop has finished: the range
\* statement declares one variable label for the whole loop (Go before 1.22),
\* and the corrections run after GenerateDomainCorrections has returned
FinalLabel(order) == IF order = <<>> THEN NoKey ELSE Last(order)

\* the record set the deletion builds from the loop variable when it runs
DeleteRC(lbl) ==
    [Subname |-> SubnameOf(lbl.NameFQDN), Type |-> lbl.Type, TTL |-> 0, Records |-> <<>>]

\* what a correction does when it is run while the loop variable holds lbl
Effect(c, lbl) ==
    [Msg |-> c.Msg, F |-> c.F,
     rc |-> IF c.F = "delete" THEN DeleteRC(lbl) ELSE c.rc]

Resolved(corrs, lbl) == {Effect(corrs[i], lbl) : i \in 1..Len(corrs)}

NoGroups == [k \in {} |-> <<>>]

(***************************************************************************)
(* GetDomainCorrections, and the caller running the corrections in order.  *)
(***************************************************************************)
\* a faulty variant of PlanTrace: the desired records are prepared before the zone is listed
PlanTrace_PrepFirst(warns) == warns \o <<ListEvent>>

\* the order of a successful call: GetZoneRecords, then PrepDesiredRecords
PlanTrace(warns) == <<ListEvent>> \o warns

\* The caller asks for corrections before running any (a preview) or after
\* running the whole list (a push), never in the middle of a list.
GetDomainCorrections ==
    /\ next = 1 \/ next > Len(corrections)
    /\ \E listOK \in BOOLEAN :
         IF ~listOK
         THEN /\ result' = "err"
              /\ trace' = <<ListEvent>>
              /\ dcInput' = dcRecords
              /\ corrections' = <<>>
              /\ keysToUpdate' = NoGroups
              /\ label' = NoKey
              /\ twice' = FALSE
              /\ afterApply' = FALSE
              /\ prevPlan' = {}
              /\ UNCHANGED dcRecords
         ELSE LET existing == PrepFoundRecords(GetZoneRecords(remote))
                  prep == PrepDesiredRecords(dcRecords)
                  changed == ChangedGroups(prep.keep, existing)
              IN  \E order \in Orders(DOMAIN changed) :
                    /\ result' = "ok"
                    /\ trace' = PlanTrace(prep.warns)
                    /\ dcInput' = dcRecords
                    /\ dcRecords' = prep.keep
                    /\ keysToUpdate' = changed
                    /\ corrections' = GenerateDomainCorrections(prep.keep, changed, order)
                    /\ label' = FinalLabel(order)
                    /\ twice' = (result = "ok" /\ next = 1)
                    /\ afterApply' = (result = "ok" /\ next > Len(corrections) /\ allOK)
                    /\ prevPlan' = IF result = "ok" /\ next = 1
                                   THEN Resolved(corrections, label) ELSE {}
    /\ next' = 1
    /\ allOK' = TRUE
    /\ UNCHANGED remote
    /\ UNCHANGED gateVars

\* the caller runs the next correction of the list: c.F()
ExecuteCorrection ==
    /\ result = "ok"
    /\ next <= Len(corrections)
    /\ LET c == Effect(corrections[next], label)
       IN  IF c.F = "noop"
           THEN UNCHANGED <<remote, trace, allOK>>
           ELSE \E ok \in BOOLEAN :
                  /\ trace' = Append(trace, CallEvent(c.F, MsgKey(c.Msg), c.rc))
                  /\ remote' = IF ~ok THEN remote
                               ELSE IF c.F = "delete" THEN deleteRR(remote, c.rc)
                               ELSE upsertRR(remote, c.rc)
                  /\ allOK' = (allOK /\ ok)
    /\ next' = next + 1
    /\ UNCHANGED <<dcRecords, dcInput, keysToUpdate, corrections, label, result,
                   prevPlan, twice, afterApply>>
    /\ UNCHANGED gateVars

(***************************************************************************)
(* EnsureDomainExists.                                                     *)
(***************************************************************************)
Domains == {"example.com", "example.org"}

NoCall == [domain |-> "", fetchOK |-> FALSE, created |-> FALSE, createOK |-> FALSE,
           before |-> 0, ret |-> "none"]

\* a faulty variant of MustCreate: the index is not consulted
MustCreate_Always(index, domain) == TRUE

\* if _, ok := c.domainIndex[domain]; ok { return nil }; return c.createDomain(domain)
MustCreate(index, domain) == domain \notin index

EnsureDomainExists(domain) ==
    /\ createCalls[domain] < MaxCreate
    /\ \E fetchOK, createOK \in BOOLEAN :
         LET index == IF fetchOK THEN remoteDomains ELSE domainIndex
             create == fetchOK /\ MustCreate(index, domain)
         IN  /\ domainIndex' = index
             /\ createCalls' = IF create
                               THEN [createCalls EXCEPT ![domain] = @ + 1]
                               ELSE createCalls
             /\ remoteDomains' = IF create /\ createOK
                                 THEN remoteDomains \cup {domain}
                                 ELSE remoteDomains
             /\ noFailure' = (noFailure /\ fetchOK /\ (create => createOK))
             /\ last' = [domain |-> domain, fetchOK |-> fetchOK, created |-> create,
                         createOK |-> (create /\ createOK),
                         before |-> createCalls[domain],
                         ret |-> IF ~fetchOK THEN "fetchErr"
                                 ELSE IF create /\ ~createOK THEN "createErr"
                                 ELSE "nil"]
    /\ UNCHANGED planVars

(***************************************************************************)
(* Initial states and specifications.                                      *)
(***************************************************************************)
Distinct(s) ==
    \A i, j \in 1..Len(s) :
        i # j => <<s[i].Name, s[i].Type, s[i].Target>> # <<s[j].Name, s[j].Type, s[j].Target>>

\* the configurations: up to MaxRecs records, no record given twice
InitConfigs ==
    UNION {{s \in [1..n -> InputRecords] : Distinct(s)} : n \in 0..MaxRecs}

ZoneRRsets ==
    {[Subname |-> "", Type |-> "A", TTL |-> MinTTL, Records |-> <<"1.1.1.1", "2.2.2.2">>]}
    \cup {[Subname |-> "xn--alabel", Type |-> "A", TTL |-> MinTTL, Records |-> <<"1.1.1.1">>]}

\* the zones: at most one record set per (subname, type)
InitZones ==
    {z \in SUBSET ZoneRRsets :
        \A a, b \in z : (a.Subname = b.Subname /\ a.Type = b.Type) => a = b}

InitPlanIdle ==
    /\ keysToUpdate = NoGroups
    /\ corrections = <<>>
    /\ label = NoKey
    /\ next = 1
    /\ allOK = TRUE
    /\ trace = <<>>
    /\ result = "none"
    /\ prevPlan = {}
    /\ twice = FALSE
    /\ afterApply = FALSE

InitGateIdle ==
    /\ createCalls = [d \in Domains |-> 0]
    /\ noFailure = TRUE
    /\ last = NoCall

Init ==
    /\ dcRecords \in InitConfigs
    /\ dcInput = dcRecords
    /\ remote \in InitZones
    /\ InitPlanIdle
    /\ remoteDomains = {Origin}
    /\ domainIndex = {Origin}
    /\ InitGateIdle

Next == GetDomainCorrections \/ ExecuteCorrection

Spec == Init /\ [][Next]_vars

InitGate ==
    /\ dcRecords = <<>>
    /\ dcInput = <<>>
    /\ remote = {}
    /\ InitPlanIdle
    /\ remoteDomains \in SUBSET Domains
    /\ domainIndex = remoteDomains
    /\ InitGateIdle

NextGate == \E domain \in Domains : EnsureDomainExists(domain)

SpecGate == InitGate /\ [][NextGate]_vars

(***************************************************************************)
(* Properties.                                                             *)
(***************************************************************************)
\* the input records that are not ALIAS records, in input order
KeptInput == SelectSeq(dcInput, LAMBDA r : r.Type # "ALIAS")

WritesFor(k) == SelectSeq(trace, LAMBDA e : IsWrite(e) /\ e.key = k)

\* the positions of the corrections that carry a message of group k
PositionsOf(k) == {i \in 1..Len(corrections) : MsgKey(corrections[i].Msg) = k}

Done == result = "ok" /\ next > Len(corrections)

\* C1: when a call succeeded and every correction it returned was then run, in
\* list order and without error, the following call for the same configuration
\* returns no correction.
C1_Convergence == (result = "ok" /\ afterApply) => corrections = <<>>

\* C2: a call that directly follows a successful call, nothing having been run in
\* between, returns the same set of corrections: the same messages bound to the
\* same kind of action on the same record set.
C2_PlanningIdempotent == (result = "ok" /\ twice) => Resolved(corrections, label) = prevPlan

\* C3: after PrepDesiredRecords a record that is neither NS nor ALIAS has TTL 3600
\* if its TTL was below 3600, with a TTL warning recorded for it, and its TTL
\* unchanged, with no warning, otherwise; no kept record has a TTL below 3600.
C3_TTLFloor ==
    result = "ok" =>
        LET low == SelectSeq(KeptInput, LAMBDA r : r.Type # "NS" /\ r.TTL < 3600)
        IN  /\ Len(dcRecords) = Len(KeptInput)
            /\ \A i \in 1..Len(KeptInput) :
                 KeptInput[i].Type # "NS" =>
                     dcRecords[i].TTL = IF KeptInput[i].TTL < 3600 THEN 3600
                                        ELSE KeptInput[i].TTL
            /\ SelectSeq(trace, LAMBDA e : e.ev = "warnTTL" /\ e.key.Type # "NS")
                 = [i \in 1..Len(low) |->
                      [ev |-> "warnTTL",
                       key |-> [NameFQDN |-> ToASCII(LabelFQDN(low[i].Name)),
                                Type |-> low[i].Type],
                       ttl |-> low[i].TTL, rc |-> NoRC]]
            /\ \A i \in 1..Len(dcRecords) : dcRecords[i].TTL >= 3600

C3_Witness ==
    /\ result = "ok"
    /\ \E i, j \in 1..Len(dcInput) :
         /\ dcInput[i].Type = "A" /\ dcInput[i].TTL < 3600
         /\ dcInput[j].Type = "A" /\ dcInput[j].TTL > 3600

\* C4: after PrepDesiredRecords the records are the input records without the
\* ALIAS records, none other dropped, none duplicated, in input order; one
\* warning is recorded per dropped ALIAS record; no upsert carries an ALIAS record.
C4_AliasFiltered ==
    result = "ok" =>
        /\ Len(dcRecords) = Len(KeptInput)
        /\ \A i \in 1..Len(KeptInput) :
             /\ dcRecords[i].Type = KeptInput[i].Type
             /\ dcRecords[i].Target = KeptInput[i].Target
             /\ LabelFQDN(dcRecords[i].Name) = ToASCII(LabelFQDN(KeptInput[i].Name))
        /\ Len(SelectSeq(trace, LAMBDA e : e.ev = "warnAlias"))
             = Len(SelectSeq(dcInput, LAMBDA r : r.Type = "ALIAS"))
        /\ \A i \in 1..Len(trace) : trace[i].ev = "upsert" => trace[i].rc.Type # "ALIAS"

C4_Witness ==
    /\ Done
    /\ \E i, j \in 1..Len(dcInput) : dcInput[i].Type = "ALIAS" /\ dcInput[j].Type = "A" /\ i < j
    /\ \E i \in 1..Len(trace) : trace[i].ev = "upsert"

\* C5: a changed group that is absent from the desired records and has K messages
\* gets exactly K corrections, contiguous and in message order; the first is the
\* deletion, which issues one delete call with no values when it is run, and the
\* other K-1 do nothing: they issue no call.
C5_DeletionDedup ==
    result = "ok" =>
        \A k \in DOMAIN keysToUpdate :
            k \notin KeysOf(dcRecords) =>
                LET msgs == keysToUpdate[k]
                    K == Len(msgs)
                IN  /\ Cardinality(PositionsOf(k)) = K
                    /\ \E s \in 0..(Len(corrections) - K) :
                         /\ PositionsOf(k) = (s + 1)..(s + K)
                         /\ \A j \in 1..K :
                              /\ corrections[s + j].Msg = msgs[j]
                              /\ corrections[s + j].F = IF j = 1 THEN "delete" ELSE "noop"
                         /\ Len(WritesFor(k)) = IF next > s + 1 THEN 1 ELSE 0
                    /\ \A i \in 1..Len(WritesFor(k)) :
                         /\ WritesFor(k)[i].ev = "delete"
                         /\ WritesFor(k)[i].rc.Records = <<>>

C5_Witness ==
    /\ Done
    /\ \E k \in DOMAIN keysToUpdate :
         /\ k \notin KeysOf(dcRecords)
         /\ Len(keysToUpdate[k]) = 2
         /\ Len(WritesFor(k)) = 1

\* C6: for a changed group that is present in the desired records with N records,
\* running the corrections of the group issues exactly one upsert call, and its
\* record set carries all N desired values for the (subname, type) of the group.
C6_GroupCoalescing ==
    result = "ok" =>
        \A k \in DOMAIN keysToUpdate :
            k \in KeysOf(dcRecords) =>
                LET recs == ForKey(dcRecords, k)
                    ran == \A i \in PositionsOf(k) : i < next
                    started == \E i \in PositionsOf(k) :
                                  i < next /\ \A j \in PositionsOf(k) : i <= j
                IN  /\ ran => Len(WritesFor(k)) = 1
                    /\ ~started => Len(WritesFor(k)) = 0
                    /\ Len(WritesFor(k)) <= 1
                    /\ \A i \in 1..Len(WritesFor(k)) :
                         LET e == WritesFor(k)[i]
                         IN  /\ e.ev = "upsert"
                             /\ e.rc.Subname = SubnameOf(k.NameFQDN)
                             /\ e.rc.Type = k.Type
                             /\ e.rc.Records = [n \in 1..Len(recs) |-> recs[n].Target]

C6_Witness ==
    /\ Done
    /\ \E k \in DOMAIN keysToUpdate :
         /\ Len(ForKey(dcRecords, k)) = 2
         /\ Len(keysToUpdate[k]) >= 2
         /\ Len(WritesFor(k)) = 1
         /\ Len(WritesFor(k)[1].rc.Records) = 2

C8_DataIndependence ==
    \A i \in 1..Len(trace) :
        IsWrite(trace[i]) =>
            /\ trace[i].rc.Subname = SubnameOf(trace[i].key.NameFQDN)
            /\ trace[i].rc.Type = trace[i].key.Type

\* C9 as claimed: no warning is emitted after a remote API call of the run, the
\* zone listing included.
C9_WarningsBeforeAnyCall ==
    \A i, j \in 1..Len(trace) :
        (i < j /\ IsApiCall(trace[i])) => ~IsWarning(trace[j])

\* C9 as amended: the zone listing is the first thing a run does; every warning is
\* emitted after the listing returned and before the first delete or upsert call;
\* a run whose listing fails emits no warning.
C9_WarningsBeforeWrites ==
    /\ trace # <<>> => trace[1] = ListEvent
    /\ \A i, j \in 1..Len(trace) :
         (i < j /\ IsWrite(trace[i])) => ~IsWarning(trace[j])
    /\ result = "err" => \A i \in 1..Len(trace) : ~IsWarning(trace[i])

C9_Witness ==
    /\ Done
    /\ \E i, j \in 1..Len(trace) : IsWarning(trace[i]) /\ IsWrite(trace[j])

\* C10 as claimed: PrepDesiredRecords leaves the TTL of an NS record unchanged,
\* whatever it is, and emits no TTL warning for it.
C10_NSUntouched ==
    result = "ok" =>
        /\ Len(dcRecords) = Len(KeptInput)
        /\ \A i \in 1..Len(KeptInput) :
             KeptInput[i].Type = "NS" => dcRecords[i].TTL = KeptInput[i].TTL
        /\ \A i \in 1..Len(trace) : trace[i].ev = "warnTTL" => trace[i].key.Type # "NS"

\* C10 as amended: an NS record is exempt from the TTL warning only; its TTL is
\* raised to 3600 when it is below 3600, silently, and unchanged otherwise.
C10_NSRaisedSilently ==
    result = "ok" =>
        /\ Len(dcRecords) = Len(KeptInput)
        /\ \A i \in 1..Len(KeptInput) :
             KeptInput[i].Type = "NS" =>
                 dcRecords[i].TTL = IF KeptInput[i].TTL < 3600 THEN 3600
                                    ELSE KeptInput[i].TTL
        /\ \A i \in 1..Len(trace) : trace[i].ev = "warnTTL" => trace[i].key.Type # "NS"

C10_Witness ==
    /\ result = "ok"
    /\ \E i \in 1..Len(dcInput) : dcInput[i].Type = "NS" /\ dcInput[i].TTL < 3600
    /\ \E i \in 1..Len(dcRecords) : dcRecords[i].Type = "NS" /\ dcRecords[i].TTL = 3600

====
